---- MODULE Spec2Model ----
(***************************************************************************)
(* Model of roachslack (src/main.go): the joinSupport and leaveSupport     *)
(* commands.  A run authenticates, lists all channels page by page,        *)
(* selects the support channels, and either reports the plan (dry run) or  *)
(* joins / leaves them one call at a time.                                 *)
(*                                                                         *)
(* The Slack client is the environment: every call may succeed or fail,    *)
(* and a listing returns any pages of channels.  `calls` records every     *)
(* request issued to the client, `pages` the responses getAllChannels has  *)
(* received (kept until its result is consumed), `out` the lines printed   *)
(* (separator lines and the timestamp line left out).                      *)
(***************************************************************************)
EXTENDS Integers, Sequences, FiniteSets, TLC

\* ------------------------------------------------------------------ bounds
MaxChannels == 3      \* channels returned by one whole listing
MaxPages    == 2      \* pages of one listing

\* ------------------------------------------------------------ Go strings
\* The bytes of the channel names used below (ASCII); Go compares and
\* prefixes strings bytewise.
Bytes ==
  [n \in {"_acme", "_Zulu", "frame", "Frame", "_beta", "_ab", "_corp",
          "sentry", "_be", "customersupport", "monitoring"} |->
     CASE n = "_acme"  -> <<95, 97, 99, 109, 101>>
       [] n = "_Zulu"  -> <<95, 90, 117, 108, 117>>
       [] n = "frame"  -> <<102, 114, 97, 109, 101>>
       [] n = "Frame"  -> <<70, 114, 97, 109, 101>>
       [] n = "_beta"  -> <<95, 98, 101, 116, 97>>
       [] n = "_ab"    -> <<95, 97, 98>>
       [] n = "_corp"  -> <<95, 99, 111, 114, 112>>
       [] n = "sentry" -> <<115, 101, 110, 116, 114, 121>>
       [] n = "_be"    -> <<95, 98, 101>>
       [] n = "customersupport" ->
            <<99, 117, 115, 116, 111, 109, 101, 114, 115, 117, 112, 112,
              111, 114, 116>>
       [] n = "monitoring" ->
            <<109, 111, 110, 105, 116, 111, 114, 105, 110, 103>>]

Underscore == <<95>>

\* strings.HasPrefix(s, prefix)
HasPrefix(s, prefix) ==
  /\ Len(Bytes[s]) >= Len(prefix)
  /\ SubSeq(Bytes[s], 1, Len(prefix)) = prefix

\* Go's s < t on strings: bytewise lexicographic, a proper prefix is smaller.
RECURSIVE BytesLess(_, _)
BytesLess(a, b) ==
  IF b = <<>> THEN FALSE
  ELSE IF a = <<>> THEN TRUE
  ELSE IF Head(a) # Head(b) THEN Head(a) < Head(b)
  ELSE BytesLess(Tail(a), Tail(b))

StringLess(s, t) == BytesLess(Bytes[s], Bytes[t])

\* Insert x into the ascending sequence s, after every element not above it.
RECURSIVE Insert(_, _)
Insert(x, s) ==
  IF s = <<>> THEN <<x>>
  ELSE IF StringLess(x, Head(s)) THEN <<x>> \o s
  ELSE <<Head(s)>> \o Insert(x, Tail(s))

\* sort.Strings: the ascending rearrangement, repeated elements kept.
RECURSIVE SortStrings(_)
SortStrings(s) ==
  IF s = <<>> THEN <<>> ELSE Insert(Head(s), SortStrings(Tail(s)))

\* ------------------------------------------------------------- constants
defaultSupportChannels == <<"customersupport", "frame", "monitoring", "sentry">>

\* ------------------------------------------------------------ environment
\* slack.Channel values the client may return (ID, Name, IsMember,
\* IsExtShared).  A listing is any sequence of these, repeats included.
Chan(id, name, member, ext) ==
  [ID |-> id, Name |-> name, IsMember |-> member, IsExtShared |-> ext]

Directory ==
  { Chan("C01", "_acme",  FALSE, FALSE),
    Chan("C02", "_Zulu",  FALSE, TRUE),
    Chan("C03", "frame",  FALSE, FALSE),
    Chan("C04", "Frame",  FALSE, FALSE),
    Chan("C05", "_beta",  TRUE,  FALSE),
    Chan("C06", "_ab",    TRUE,  FALSE),
    Chan("C07", "_corp",  TRUE,  TRUE),
    Chan("C08", "sentry", TRUE,  FALSE),
    Chan("C09", "_be",    TRUE,  FALSE) }

\* Pages of at most n channels.
PagesUpTo(n) == UNION { [1..k -> Directory] : k \in 0..n }

\* The cursor the client hands out after the k-th page.
CursorAfter(k) == IF k = 1 THEN "p1" ELSE IF k = 2 THEN "p2" ELSE "p3"

SlackKeys == {"", "xoxp"}
Commands  == {"joinSupport", "leaveSupport"}
Times     == {1700000000, 1700000005}

\* ------------------------------------------------------------------ state
VARIABLES
  command,              \* the subcommand being run
  slackKey,             \* --key
  dryRun,               \* --dry
  pc,                   \* position of the run
  cursor,               \* getAllChannels: cursor of the next request
  channels,             \* getAllChannels: channels accumulated / returned
  supportChannelNames,  \* selected names
  cannotLeave,          \* leaveSupport: externally shared channels
  channelIDs,           \* name -> id table (a function on the names set)
  idx,                  \* position in the range loop over supportChannelNames
  timestamp,            \* joinSupport: the read mark
  calls,                \* every request made to the client, in order
  pages,                \* getAllChannels: the responses received, in order
  out,                  \* lines printed
  exit                  \* process exit code, -1 while running

vars == <<command, slackKey, dryRun, pc, cursor, channels,
          supportChannelNames, cannotLeave, channelIDs, idx, timestamp,
          calls, pages, out, exit>>

Call(op, arg, ok) == [op |-> op, arg |-> arg, ok |-> ok]
Line(kind, names) == [kind |-> kind, names |-> names]

EmptyMap == [n \in {} |-> ""]

\* m[k] = v in a Go map
MapSet(m, k, v) == [n \in DOMAIN m \cup {k} |-> IF n = k THEN v ELSE m[n]]

Init ==
  /\ command \in Commands
  /\ slackKey \in SlackKeys
  /\ dryRun \in BOOLEAN
  /\ pc = "start"
  /\ cursor = ""
  /\ channels = <<>>
  /\ supportChannelNames = <<>>
  /\ cannotLeave = <<>>
  /\ channelIDs = EmptyMap
  /\ idx = 1
  /\ timestamp = 0
  /\ calls = <<>>
  /\ pages = <<>>
  /\ out = <<>>
  /\ exit = -1

\* Failed with the error printed and the run going on.
FailedButContinues(line) ==
  /\ out' = Append(out, Line(line, <<>>))
  /\ UNCHANGED <<exit, pc>>

\* Failed with the error printed and exit code 0.
FailedExitsZero(line) ==
  /\ out' = Append(out, Line(line, <<>>))
  /\ exit' = 0
  /\ pc' = "done"

\* wrap: a returned error is printed and the process exits with 1.
Failed(line) ==
  /\ out' = Append(out, Line(line, <<>>))
  /\ exit' = 1
  /\ pc' = "done"

\* wrap: no error returned; main returns and the process exits with 0.
Succeeded ==
  /\ exit' = 0
  /\ pc' = "done"

\* ------------------------------------------------------------- checkAuth
\* No key given: the error is returned before any client exists.
CheckAuthNoKey ==
  /\ pc = "start"
  /\ slackKey = ""
  /\ Failed("Error: no slack auth key provided")
  /\ UNCHANGED <<command, slackKey, dryRun, cursor, channels,
                 supportChannelNames, cannotLeave, channelIDs, idx,
                 timestamp, calls, pages>>

\* api.AuthTestContext: on success the login line is printed and
\* getAllChannels starts with the empty cursor.
AuthTest ==
  /\ pc = "start"
  /\ slackKey # ""
  /\ \E ok \in BOOLEAN :
       /\ calls' = Append(calls, Call("authenticate", slackKey, ok))
       /\ IF ok
            THEN /\ out' = Append(out, Line("Logged in as", <<>>))
                 /\ pc' = "list"
                 /\ exit' = exit
            ELSE Failed("Error: auth")
  /\ UNCHANGED <<command, slackKey, dryRun, cursor, channels,
                 supportChannelNames, cannotLeave, channelIDs, idx,
                 timestamp, pages>>

\* -------------------------------------------------------- getAllChannels
\* The cursor sent with the next request once a page came back with
\* nextCursor.
NextRequestCursor(cur, nextCursor) == nextCursor

\* AppendPage with the page assigned instead of appended.
AppendPageReplaces(chans, page) == page

\* The channels held after a page has been received.
AppendPage(chans, page) == chans \o page

\* One iteration of the loop: a request with the current cursor; an error
\* returns nil channels, a page is appended and the loop ends when the
\* returned cursor is empty.
GetConversations ==
  /\ pc = "list"
  /\ \/ /\ calls' = Append(calls, Call("listChannels", cursor, FALSE))
        /\ channels' = <<>>
        /\ Failed("Error: list")
        /\ UNCHANGED <<cursor, pages>>
     \/ \E page \in PagesUpTo(MaxChannels - Len(channels)),
           more \in BOOLEAN :
          LET nextCursor == IF more /\ Len(pages) + 1 < MaxPages
                              THEN CursorAfter(Len(pages) + 1) ELSE ""
          IN /\ calls' = Append(calls, Call("listChannels", cursor, TRUE))
             /\ pages' = Append(pages, [page |-> page, next |-> nextCursor])
             /\ channels' = AppendPage(channels, page)
             /\ IF nextCursor = ""
                  THEN /\ pc' = "select"
                       /\ cursor' = cursor
                  ELSE /\ pc' = "list"
                       /\ cursor' = NextRequestCursor(cursor, nextCursor)
             /\ UNCHANGED <<out, exit>>
  /\ UNCHANGED <<command, slackKey, dryRun, supportChannelNames,
                 cannotLeave, channelIDs, idx, timestamp>>

\* ------------------------------------------------------------- selection
\* DryRunOnly with the flag never consulted.
DryRunIgnored == FALSE

\* `if dryRun`: the run stops once the plan is printed.
DryRunOnly == dryRun

\* The accumulators of the selection loops.
NoSelection == [names |-> <<>>, cannot |-> <<>>, ids |-> EmptyMap]

\* supportChannelNames = append(...); channelIDs[channel.Name] = channel.ID
AddChannel(sel, channel) ==
  [sel EXCEPT !.names = Append(@, channel.Name),
              !.ids = MapSet(@, channel.Name, channel.ID)]

\* cannotLeave = append(cannotLeave, channel.Name)
AddCannotLeave(sel, channel) ==
  [sel EXCEPT !.cannot = Append(@, channel.Name)]

\* The inner loop of joinSupport over defaultSupportChannels from entry k:
\* the channel is added at every entry equal to its name.
RECURSIVE AddDefaults(_, _, _)
AddDefaults(sel, channel, k) ==
  IF k > Len(defaultSupportChannels) THEN sel
  ELSE AddDefaults(IF defaultSupportChannels[k] = channel.Name
                     THEN AddChannel(sel, channel) ELSE sel,
                   channel, k + 1)

\* JoinVisit without the IsMember test.
JoinVisitMembersToo(sel, channel) ==
  IF HasPrefix(channel.Name, Underscore) THEN AddChannel(sel, channel)
  ELSE AddDefaults(sel, channel, 1)

\* Body of the joinSupport loop over channels.
JoinVisit(sel, channel) ==
  IF channel.IsMember THEN sel
  ELSE IF HasPrefix(channel.Name, Underscore) THEN AddChannel(sel, channel)
  ELSE AddDefaults(sel, channel, 1)

\* LeaveVisit without the IsExtShared test.
LeaveVisitSharedToo(sel, channel) ==
  IF ~channel.IsMember THEN sel
  ELSE IF HasPrefix(channel.Name, Underscore) THEN AddChannel(sel, channel)
  ELSE sel

\* Body of the leaveSupport loop over channels.
LeaveVisit(sel, channel) ==
  IF ~channel.IsMember THEN sel
  ELSE IF HasPrefix(channel.Name, Underscore)
         THEN IF channel.IsExtShared THEN AddCannotLeave(sel, channel)
              ELSE AddChannel(sel, channel)
  ELSE sel

RECURSIVE JoinLoop(_, _)
JoinLoop(sel, chans) ==
  IF chans = <<>> THEN sel
  ELSE JoinLoop(JoinVisit(sel, Head(chans)), Tail(chans))

RECURSIVE LeaveLoop(_, _)
LeaveLoop(sel, chans) ==
  IF chans = <<>> THEN sel
  ELSE LeaveLoop(LeaveVisit(sel, Head(chans)), Tail(chans))

\* joinSupport, from the listing to the first join: select, report
\* "nothing to join" and stop, or sort and print the plan, and stop there
\* in a dry run.
JoinSelect ==
  /\ pc = "select"
  /\ command = "joinSupport"
  /\ LET sel == JoinLoop(NoSelection, channels)
         sorted == SortStrings(sel.names)
     IN /\ channelIDs' = sel.ids
        /\ cannotLeave' = cannotLeave
        /\ IF Len(sel.names) = 0
             THEN /\ supportChannelNames' = sel.names
                  /\ out' = Append(out, Line("no channels left to join", <<>>))
                  /\ Succeeded
             ELSE /\ supportChannelNames' = sorted
                  /\ IF DryRunOnly
                       THEN /\ out' = out \o <<Line("You will be joining", sorted),
                                               Line("Dry run only", <<>>)>>
                            /\ Succeeded
                       ELSE /\ out' = Append(out, Line("You will be joining", sorted))
                            /\ pc' = "join"
                            /\ exit' = exit
  /\ idx' = 1
  /\ pages' = <<>>
  /\ UNCHANGED <<command, slackKey, dryRun, cursor, channels, timestamp,
                 calls>>

\* LeaveAdvisory with nothing printed.
LeaveAdvisoryOmitted(cannot) == <<>>

\* The lines leaveSupport prints about the channels it cannot leave.
LeaveAdvisory(cannot) == <<Line("must be left manually", cannot)>>

\* leaveSupport, from the listing to the first leave.
LeaveSelect ==
  /\ pc = "select"
  /\ command = "leaveSupport"
  /\ LET sel == LeaveLoop(NoSelection, channels)
         sorted == SortStrings(sel.names)
     IN /\ channelIDs' = sel.ids
        /\ cannotLeave' = sel.cannot
        /\ IF Len(sel.names) = 0
             THEN /\ supportChannelNames' = sel.names
                  /\ out' = Append(out, Line("no channels left to leave", <<>>))
                  /\ Succeeded
             ELSE /\ supportChannelNames' = sorted
                  /\ IF DryRunOnly
                       THEN /\ out' = out \o <<Line("You will be leaving", sorted)>>
                                          \o LeaveAdvisory(sel.cannot)
                                          \o <<Line("Dry run only", <<>>)>>
                            /\ Succeeded
                       ELSE /\ out' = Append(out, Line("You will be leaving", sorted))
                            /\ pc' = "leave"
                            /\ exit' = exit
  /\ idx' = 1
  /\ pages' = <<>>
  /\ UNCHANGED <<command, slackKey, dryRun, cursor, channels, timestamp,
                 calls>>

\* ------------------------------------------------------------- execution
\* IdOf with the name passed where the id belongs.
IdOfIsName(ids, name) == name

\* The id passed for a selected name.
IdOf(ids, name) == ids[name]

\* One iteration of the join loop: JoinChannelContext by name; an error
\* ends the run.
JoinChannel ==
  /\ pc = "join"
  /\ idx <= Len(supportChannelNames)
  /\ LET channelName == supportChannelNames[idx]
     IN \E ok \in BOOLEAN :
          /\ calls' = Append(calls, Call("joinChannel", channelName, ok))
          /\ IF ok
               THEN /\ out' = Append(out, Line("Joined", <<channelName>>))
                    /\ idx' = idx + 1
                    /\ UNCHANGED <<pc, exit>>
               ELSE /\ Failed("Error: join")
                    /\ idx' = idx
  /\ UNCHANGED <<command, slackKey, dryRun, cursor, channels,
                 supportChannelNames, cannotLeave, channelIDs, timestamp,
                 pages>>

\* After the last join: the announcement, the 5 s sleep, and the timestamp
\* taken once for all marks.
Settle ==
  /\ pc = "join"
  /\ idx > Len(supportChannelNames)
  /\ out' = Append(out, Line("Marking all the joined channels as read", <<>>))
  /\ timestamp' \in Times
  /\ idx' = 1
  /\ pc' = "mark"
  /\ UNCHANGED <<command, slackKey, dryRun, cursor, channels,
                 supportChannelNames, cannotLeave, channelIDs, calls, pages,
                 exit>>

\* One iteration of the mark loop: SetChannelReadMarkContext by id.
SetChannelReadMark ==
  /\ pc = "mark"
  /\ idx <= Len(supportChannelNames)
  /\ LET channelName == supportChannelNames[idx]
         channelID == IdOf(channelIDs, channelName)
     IN \E ok \in BOOLEAN :
          /\ calls' = Append(calls, Call("markRead", channelID, ok))
          /\ IF ok
               THEN /\ out' = Append(out, Line("is marked as read", <<channelName>>))
                    /\ idx' = idx + 1
                    /\ UNCHANGED <<pc, exit>>
               ELSE /\ Failed("Error: markRead")
                    /\ idx' = idx
  /\ UNCHANGED <<command, slackKey, dryRun, cursor, channels,
                 supportChannelNames, cannotLeave, channelIDs, timestamp,
                 pages>>

\* joinSupport returns nil after the last mark.
JoinDone ==
  /\ pc = "mark"
  /\ idx > Len(supportChannelNames)
  /\ out' = Append(out, Line("Done!", <<>>))
  /\ Succeeded
  /\ UNCHANGED <<command, slackKey, dryRun, cursor, channels,
                 supportChannelNames, cannotLeave, channelIDs, idx,
                 timestamp, calls, pages>>

\* One iteration of the leave loop: LeaveChannelContext by id.
LeaveChannel ==
  /\ pc = "leave"
  /\ idx <= Len(supportChannelNames)
  /\ LET channelName == supportChannelNames[idx]
         channelID == IdOf(channelIDs, channelName)
     IN \E ok \in BOOLEAN :
          /\ calls' = Append(calls, Call("leaveChannel", channelID, ok))
          /\ IF ok
               THEN /\ out' = Append(out, Line("Left", <<channelName>>))
                    /\ idx' = idx + 1
                    /\ UNCHANGED <<pc, exit>>
               ELSE /\ Failed("Error: leave")
                    /\ idx' = idx
  /\ UNCHANGED <<command, slackKey, dryRun, cursor, channels,
                 supportChannelNames, cannotLeave, channelIDs, timestamp,
                 pages>>

\* leaveSupport after the last leave: the advisory, then nil.
LeaveDone ==
  /\ pc = "leave"
  /\ idx > Len(supportChannelNames)
  /\ out' = out \o LeaveAdvisory(cannotLeave) \o <<Line("Done!", <<>>)>>
  /\ Succeeded
  /\ UNCHANGED <<command, slackKey, dryRun, cursor, channels,
                 supportChannelNames, cannotLeave, channelIDs, idx,
                 timestamp, calls, pages>>

Next ==
  \/ CheckAuthNoKey
  \/ AuthTest
  \/ GetConversations
  \/ JoinSelect
  \/ LeaveSelect
  \/ JoinChannel
  \/ Settle
  \/ SetChannelReadMark
  \/ JoinDone
  \/ LeaveChannel
  \/ LeaveDone

Spec == Init /\ [][Next]_vars

TypeOK ==
  /\ pc \in {"start", "list", "select", "join", "mark", "leave", "done"}
  /\ exit \in {-1, 0, 1}
  /\ (pc = "done") <=> (exit # -1)
  /\ Len(channels) <= MaxChannels
  /\ Len(pages) <= MaxPages

\* ================================================================ claims
Range(s) == { s[i] : i \in DOMAIN s }

Mutating == {"joinChannel", "leaveChannel", "markRead"}

CallsOf(op) == SelectSeq(calls, LAMBDA c : c.op = op)

Args(s) == [i \in DOMAIN s |-> s[i].arg]

Printed(kind) == { i \in DOMAIN out : out[i].kind = kind }

DefaultNames == {"customersupport", "frame", "monitoring", "sentry"}

StartsWithUnderscore(name) == Head(Bytes[name]) = 95

NothingPrinted ==
  Printed("no channels left to join") \cup Printed("no channels left to leave") # {}

PlanPrinted ==
  Printed("You will be joining") \cup Printed("You will be leaving") # {}

\* The listing returned and the selection was made from it.
SelectionRan == NothingPrinted \/ PlanPrinted

\* ---------------------------------------------------------------- C1
\* C1: in a dry run, whatever the command and the listing, the only
\* requests ever made are authenticate and listChannels.
C1_DryRunMakesNoMutatingCall ==
  dryRun => \A i \in DOMAIN calls : calls[i].op \in {"authenticate", "listChannels"}

\* A dry run of leaveSupport that printed a non-empty plan and ended.
C1_Witness ==
  /\ dryRun /\ pc = "done" /\ exit = 0
  /\ command = "leaveSupport"
  /\ Len(supportChannelNames) = 2
  /\ Printed("Dry run only") # {}

\* ---------------------------------------------------------------- C3
\* The names C3 says joinSupport selects from a listing.
JoinExpected(chans) ==
  { c.Name : c \in { d \in Range(chans) :
                       /\ ~d.IsMember
                       /\ StartsWithUnderscore(d.Name) \/ d.Name \in DefaultNames } }

\* C3: once joinSupport has selected, the selected names are exactly the
\* names of the listed non-member channels that start with '_' or equal a
\* default name; members and other names are never selected.
C3_JoinSelection ==
  (command = "joinSupport" /\ SelectionRan) =>
     /\ Range(supportChannelNames) = JoinExpected(channels)
     /\ \A c \in Range(channels) :
          c.IsMember => c.Name \notin Range(supportChannelNames)
     /\ "Frame" \notin Range(supportChannelNames)

\* Scenario A with "Frame" as the non-matching name and a member channel:
\* a customer channel and a default channel are selected, nothing else.
C3_Witness ==
  /\ command = "joinSupport" /\ SelectionRan
  /\ Range(channels) = {Chan("C01", "_acme", FALSE, FALSE),
                        Chan("C03", "frame", FALSE, FALSE),
                        Chan("C04", "Frame", FALSE, FALSE)}
  /\ supportChannelNames = <<"_acme", "frame">>

\* ---------------------------------------------------------------- C4
LeaveExpected(chans) ==
  { c.Name : c \in { d \in Range(chans) :
                       d.IsMember /\ StartsWithUnderscore(d.Name) /\ ~d.IsExtShared } }

Unreachable(chans) ==
  { d \in Range(chans) : d.IsMember /\ StartsWithUnderscore(d.Name) /\ d.IsExtShared }

\* C4: once leaveSupport has selected, the selected names are exactly the
\* names of the listed member channels that start with '_' and are not
\* externally shared; each externally shared one is in cannotLeave, is not
\* selected and its id is never passed to leaveChannel; a default channel
\* without the prefix is never selected.
C4_LeaveSelection ==
  (command = "leaveSupport" /\ SelectionRan) =>
     /\ Range(supportChannelNames) = LeaveExpected(channels)
     /\ Range(cannotLeave) = { c.Name : c \in Unreachable(channels) }
     /\ \A c \in Unreachable(channels) :
          /\ c.Name \notin Range(supportChannelNames)
          /\ \A i \in DOMAIN calls :
               calls[i].op = "leaveChannel" => calls[i].arg # c.ID
     /\ Range(supportChannelNames) \cap DefaultNames = {}

\* A live leave run over a shared customer channel, a member default
\* channel and a plain customer channel: only the last is left.
C4_Witness ==
  /\ command = "leaveSupport" /\ ~dryRun /\ pc = "done" /\ exit = 0
  /\ Range(channels) = {Chan("C07", "_corp", TRUE, TRUE),
                        Chan("C08", "sentry", TRUE, FALSE),
                        Chan("C05", "_beta", TRUE, FALSE)}
  /\ cannotLeave = <<"_corp">>
  /\ Args(CallsOf("leaveChannel")) = <<"C05">>

\* ---------------------------------------------------------------- C5
\* C5: in both commands, once the selection is made the selected names are
\* in ascending order with no name twice (each name is below the next),
\* and each has an entry in channelIDs.
C5_SortedUniqueWithIds ==
  SelectionRan =>
     /\ \A i \in 1..(Len(supportChannelNames) - 1) :
          StringLess(supportChannelNames[i], supportChannelNames[i + 1])
     /\ Range(supportChannelNames) \subseteq DOMAIN channelIDs

\* The parts of C5 that hold for every listing: ascending order allowing
\* equal neighbours, and an id for every selected name.
C5_SortedWithIds ==
  SelectionRan =>
     /\ \A i \in 1..(Len(supportChannelNames) - 1) :
          ~StringLess(supportChannelNames[i + 1], supportChannelNames[i])
     /\ Range(supportChannelNames) \subseteq DOMAIN channelIDs

\* ---------------------------------------------------------------- C2
\* The listed channels a live run of the command acts on.
SelectedChannels ==
  { c \in Range(channels) :
      IF command = "joinSupport" THEN c.Name \in JoinExpected(channels)
      ELSE c.Name \in LeaveExpected(channels) /\ ~c.IsExtShared /\ c.IsMember }

\* The name of the listed channel with this id.
NameOfID(id) == (CHOOSE c \in Range(channels) : c.ID = id).Name

\* The channel names the calls of one kind were made for, in call order.
NamesCalled(op) ==
  LET s == CallsOf(op)
  IN [i \in DOMAIN s |-> IF op = "joinChannel" THEN s[i].arg ELSE NameOfID(s[i].arg)]

\* C2: in a live run each kind of call is made at most once per channel
\* and in ascending order of channel name (each call's channel name is
\* below the next one's), and a run that ends successfully has made the
\* command's calls for every selected channel.
C2_OncePerChannelInOrder ==
  (~dryRun /\ SelectionRan) =>
     /\ \A op \in Mutating :
          LET n == NamesCalled(op)
          IN \A i \in 1..(Len(n) - 1) : StringLess(n[i], n[i + 1])
     /\ (pc = "done" /\ exit = 0) =>
          IF command = "joinSupport"
            THEN /\ Range(Args(CallsOf("joinChannel"))) = { c.Name : c \in SelectedChannels }
                 /\ Range(Args(CallsOf("markRead"))) = { c.ID : c \in SelectedChannels }
                 /\ CallsOf("leaveChannel") = <<>>
            ELSE /\ Range(Args(CallsOf("leaveChannel"))) = { c.ID : c \in SelectedChannels }
                 /\ CallsOf("joinChannel") = <<>>
                 /\ CallsOf("markRead") = <<>>

\* What the loops do for every listing: the calls made so far of each
\* kind go through supportChannelNames entry by entry, in its order.
C2_OncePerEntryInOrder ==
  (~dryRun /\ SelectionRan) =>
     /\ \A op \in Mutating :
          LET n == NamesCalled(op)
          IN /\ Len(n) <= Len(supportChannelNames)
             /\ n = SubSeq(supportChannelNames, 1, Len(n))
     /\ (pc = "done" /\ exit = 0) =>
          IF command = "joinSupport"
            THEN /\ Len(CallsOf("joinChannel")) = Len(supportChannelNames)
                 /\ Len(CallsOf("markRead")) = Len(supportChannelNames)
                 /\ CallsOf("leaveChannel") = <<>>
            ELSE /\ Len(CallsOf("leaveChannel")) = Len(supportChannelNames)
                 /\ CallsOf("joinChannel") = <<>>
                 /\ CallsOf("markRead") = <<>>

\* ---------------------------------------------------------------- C6
\* C6: every leaveSupport run that got past the listing has, by the time
\* it ends, printed the list of channels to leave manually: each name of
\* cannotLeave stands in a printed advisory, also when nothing is selected.
C6_AdvisoryAlwaysPrinted ==
  (command = "leaveSupport" /\ SelectionRan /\ pc = "done") =>
     \A n \in Range(cannotLeave) :
        \E i \in Printed("must be left manually") : n \in Range(out[i].names)

\* C6 as the code has it: a leaveSupport run that ended prints the list
\* exactly when it selected something and ended without error (the dry
\* run, and the live run whose leaves all succeeded); it then prints it
\* once, with the names of cannotLeave.  With nothing selected, or after
\* a failed leave, the list is not printed.
C6_AdvisoryWhenPlanCompleted ==
  (command = "leaveSupport" /\ pc = "done") =>
     /\ Printed("must be left manually") # {}
          <=> (SelectionRan /\ supportChannelNames # <<>> /\ exit = 0)
     /\ Cardinality(Printed("must be left manually")) <= 1
     /\ \A i \in Printed("must be left manually") : out[i].names = cannotLeave

\* A live run that left a channel and then named the shared one.
C6_Witness ==
  /\ command = "leaveSupport" /\ ~dryRun /\ pc = "done" /\ exit = 0
  /\ Len(CallsOf("leaveChannel")) = 1
  /\ cannotLeave = <<"_corp">>
  /\ \E i \in DOMAIN out : out[i] = Line("must be left manually", <<"_corp">>)

\* ---------------------------------------------------------------- C7
\* C7: in a live run a failed join, leave or mark is the last request of
\* the run, which has ended with exit code 1; the calls before it
\* succeeded and none of them is undone (joinSupport never leaves,
\* leaveSupport never joins).
C7_AbortOnFirstFailure ==
  /\ \A i \in DOMAIN calls :
       (calls[i].op \in Mutating /\ ~calls[i].ok) =>
          /\ i = Len(calls)
          /\ pc = "done" /\ exit = 1
          /\ Printed("Done!") = {}
  /\ command = "joinSupport" => CallsOf("leaveChannel") = <<>>
  /\ command = "leaveSupport" => CallsOf("joinChannel") = <<>>

\* The second leave fails after the first succeeded.
C7_Witness ==
  /\ command = "leaveSupport" /\ pc = "done" /\ exit = 1
  /\ Len(CallsOf("leaveChannel")) = 2
  /\ CallsOf("leaveChannel")[1].ok
  /\ ~CallsOf("leaveChannel")[2].ok
  /\ supportChannelNames = <<"_ab", "_be", "_beta">>

\* ---------------------------------------------------------------- C8
\* C8: when a markRead request is made, every selected name has been
\* joined successfully, no join follows it, its id is that of a listed,
\* selected channel with the name being marked, and nothing is left.
C8_MarksAfterAllJoins ==
  \A i \in DOMAIN calls :
     calls[i].op = "markRead" =>
        /\ LET before == SelectSeq(SubSeq(calls, 1, i),
                                   LAMBDA c : c.op = "joinChannel" /\ c.ok)
           IN Args(before) = supportChannelNames
        /\ \A j \in i..Len(calls) : calls[j].op = "markRead"
        /\ LET k == Len(SelectSeq(SubSeq(calls, 1, i), LAMBDA c : c.op = "markRead"))
           IN \E c \in Range(channels) :
                /\ c.ID = calls[i].arg
                /\ c.Name = supportChannelNames[k]
                /\ ~c.IsMember
        /\ CallsOf("leaveChannel") = <<>>

\* Scenario D: two joins succeed, the first mark succeeds, the second fails.
C8_Witness ==
  /\ pc = "done" /\ exit = 1
  /\ supportChannelNames = <<"_Zulu", "frame">>
  /\ Len(CallsOf("joinChannel")) = 2
  /\ Args(CallsOf("markRead")) = <<"C02", "C03">>
  /\ CallsOf("markRead")[1].ok /\ ~CallsOf("markRead")[2].ok

\* ---------------------------------------------------------------- C9
RECURSIVE Concat(_)
Concat(ps) == IF ps = <<>> THEN <<>> ELSE Head(ps).page \o Concat(Tail(ps))

ListFailed == \E i \in DOMAIN calls : calls[i].op = "listChannels" /\ ~calls[i].ok

\* C9: while getAllChannels runs and when it returns, request k carries
\* the cursor returned with page k-1 (the empty cursor first), a request
\* follows a page exactly when that page came with a non-empty cursor, and
\* the channels held are the pages received, concatenated in order.  When
\* a request fails no channels are returned, the run ends with exit code
\* 1, nothing is selected, no plan is printed and no join, leave or mark
\* is ever made, whatever pages came before.
C9_ListingAllOrNothing ==
  /\ pc \in {"list", "select"} =>
       LET reqs == CallsOf("listChannels")
       IN /\ Len(reqs) = Len(pages)
          /\ \A k \in DOMAIN reqs :
               reqs[k].arg = IF k = 1 THEN "" ELSE pages[k - 1].next
          /\ \A k \in 1..(Len(pages) - 1) : pages[k].next # ""
          /\ pages # <<>> =>
               (pages[Len(pages)].next = "" <=> pc = "select")
          /\ pc = "select" => pages # <<>>
          /\ channels = Concat(pages)
  /\ ListFailed =>
       /\ pc = "done" /\ exit = 1
       /\ ~calls[Len(calls)].ok /\ calls[Len(calls)].op = "listChannels"
       /\ channels = <<>>
       /\ supportChannelNames = <<>> /\ cannotLeave = <<>>
       /\ ~SelectionRan
       /\ \A i \in DOMAIN calls : calls[i].op \notin Mutating

\* The second request fails after a first page with a customer channel.
C9_Witness ==
  /\ ListFailed
  /\ Len(pages) = 1
  /\ pages[1].page = <<Chan("C01", "_acme", FALSE, FALSE)>>
  /\ Args(CallsOf("listChannels")) = <<"", "p1">>

\* --------------------------------------------------------------- C10
AuthOK == calls # <<>> /\ calls[1].op = "authenticate" /\ calls[1].ok

ListOK ==
  /\ CallsOf("listChannels") # <<>>
  /\ \A i \in DOMAIN calls : calls[i].op = "listChannels" => calls[i].ok

NoMutatingCall == \A i \in DOMAIN calls : calls[i].op \notin Mutating

AllOK(op) ==
  LET s == CallsOf(op)
  IN /\ Args(s) = IF op = "joinChannel" THEN supportChannelNames
                  ELSE [i \in DOMAIN supportChannelNames |->
                          channelIDs[supportChannelNames[i]]]
     /\ \A i \in DOMAIN s : s[i].ok

\* C10: a run has ended with exit code 0 only after a successful
\* authenticate and a listing whose requests all succeeded, and then
\* either nothing was selected, "nothing to do" was reported and no join,
\* leave or mark was made; or it was a dry run with no such call; or it
\* was a live run whose joins and then marks, or whose leaves, succeeded
\* for every selected name.  Without a successful authenticate the run
\* makes no other request.
C10_DoneOnlyAfterSuccess ==
  /\ exit = 0 =>
       /\ AuthOK /\ ListOK /\ SelectionRan
       /\ \/ supportChannelNames = <<>> /\ NothingPrinted /\ NoMutatingCall
          \/ supportChannelNames # <<>> /\ dryRun /\ NoMutatingCall
          \/ /\ supportChannelNames # <<>> /\ ~dryRun
             /\ IF command = "joinSupport"
                  THEN AllOK("joinChannel") /\ AllOK("markRead")
                  ELSE AllOK("leaveChannel")
  /\ ~AuthOK => Len(calls) <= 1 /\ \A i \in DOMAIN calls : calls[i].op = "authenticate"
  /\ slackKey = "" => calls = <<>>

\* A live join of two channels that ended with exit code 0.
C10_Witness ==
  /\ exit = 0 /\ ~dryRun /\ command = "joinSupport"
  /\ Len(supportChannelNames) = 2
  /\ Len(CallsOf("markRead")) = 2

====
